---- MODULE Spec2Model ----
(***************************************************************************)
(* MonteFIRE: the Monte Carlo engine of src/simulation_logic.py.           *)
(*                                                                         *)
(* FIRESimulator.simulate_lifetime is modelled year step by year step      *)
(* (specification SpecLife); FIRESimulator.run_simulation is modelled      *)
(* loop iteration by loop iteration, each call of simulate_lifetime being  *)
(* one run of the same year step (specification Spec).                     *)
(*                                                                         *)
(* Numbers.  Python floats are modelled by exact fixed-point arithmetic:   *)
(* a rate r (inflation, return, growth, probability, ratio) is the integer *)
(* r * Den, and an amount of money m is the integer m * Den^T, where T is  *)
(* the number of year steps of the path.  An amount is multiplied by a     *)
(* rate at most once per year, so every product below is exact.  Rounding  *)
(* of the floats is therefore not modelled.                                *)
(*                                                                         *)
(* Random draws are inputs of the year step, taken from small sets.        *)
(***************************************************************************)
EXTENDS Integers, Sequences, FiniteSets, TLC

\* ------------------------------------------------------------------ bounds
\* Longest path: life_expectancy - current_age is at most MaxYears.
MaxYears == 3
\* Longest path of the configurations swept by run_simulation.
MaxRunYears == 1
\* Most ages in [retire_age_start, retire_age_end].
MaxAges == 2
\* Largest small sample count (the large one is BigSimulations).
MaxSimulations == 2

\* ------------------------------------------------------------- fixed point
\* Rates are multiples of 1/Den = 2%.
Den == 100 \div 2

RECURSIVE Pow(_, _)
Pow(b, n) == IF n <= 0 THEN 1 ELSE b * Pow(b, n - 1)

Max(a, b) == IF a >= b THEN a ELSE b
Min(a, b) == IF a <= b THEN a ELSE b

\* x * (1 + r), as in `current_expense *= (1 + inflation)'.
Grow(x, r) == (x \div Den) * (Den + r)
\* x * r, as in `current_salary *= self.salary_cut_ratio'.
Times(x, r) == (x \div Den) * r

\* The literal 1.02 of the two post-35 salary updates, as a growth rate.
LateGrowthRate == 1

\* np.clip(inflation, 0.0, 0.10)
ClipLo == 0
ClipHi == 5
Clip(x) == Min(Max(x, ClipLo), ClipHi)

\* ----------------------------------------------------------- configuration
\* What FIRESimulator.__init__ stores from the config dict.
Config(ca, le, a, inc, ex, n, rmin, rmax, ccs, lp, scr, egr, pri) ==
    [current_age |-> ca, life_expectancy |-> le, current_assets |-> a,
     annual_income |-> inc, annual_expense |-> ex, simulations |-> n,
     return_min |-> rmin, return_max |-> rmax,
     career_crisis_age_start |-> ccs, layoff_probability |-> lp,
     salary_cut_ratio |-> scr, early_growth_rate |-> egr,
     post_retirement_income |-> pri]

\* len(ages), ages = np.arange(current_age, life_expectancy + 1)
NumAges(c) == Max(0, c.life_expectancy + 1 - c.current_age)
\* The age ladder itself.
Ages(c) == [i \in 1..NumAges(c) |-> c.current_age + i - 1]
\* Number of year steps of a path, and the scale of its money amounts.
Years(c) == Max(0, NumAges(c) - 1)
Scale(c) == Pow(Den, Years(c))
Money(c, m) == m * Scale(c)

\* The domain of section 3 of the specification (the code never checks it).
ValidConfig(c) ==
    /\ c.simulations > 0
    /\ c.life_expectancy > c.current_age
    /\ c.layoff_probability >= 0 /\ c.layoff_probability <= Den
    /\ c.salary_cut_ratio > 0
    /\ c.return_min <= c.return_max

\* ------------------------------------------------------------ random draws
\* np.random.normal: any real; three of them, one below and one above the clip.
NormalDraws == {-1, 2, 7}
\* np.random.uniform(low, high): low + (high - low) * u, u in [0, 1).
UniformDraws(lo, hi) ==
    IF lo < hi THEN {lo, hi - 1} ELSE IF lo > hi THEN {lo, hi + 1} ELSE {lo}
\* np.random.random(): [0, 1).
UnitDraws == {0, Den - 1}
Draws(c) ==
    [normal : NormalDraws, uniform : UniformDraws(c.return_min, c.return_max),
     unit : UnitDraws]

\* ------------------------------------------------------- simulate_lifetime
\* Local state of one call, after lines 26-39.  assets[i] is the code's
\* assets[i - 1]; t is the index of the last loop iteration run (0: none).
\* inflation, yearly_cashflow and new_assets are the loop's locals as the
\* last iteration left them.  The last group of fields records what the call
\* did and is not read by it: negative is the set of steps whose new_assets
\* was < 0, branch the path last taken through lines 53-72, *_draws the
\* number of draws of each kind, cuts the number of times line 59 ran.
LifeStart(c, retire_age) ==
    [retire_age |-> retire_age,
     t |-> 0,
     assets |-> [i \in 1..NumAges(c) |->
                    IF i = 1 THEN Money(c, c.current_assets) ELSE 0],
     current_salary |-> Money(c, c.annual_income),
     current_expense |-> Money(c, c.annual_expense),
     current_passive_income |-> Money(c, c.post_retirement_income),
     is_ruined |-> FALSE,
     has_experienced_crisis |-> FALSE,
     inflation |-> 0, yearly_cashflow |-> 0, new_assets |-> 0,
     negative |-> {}, branch |-> "none",
     normal_draws |-> 0, uniform_draws |-> 0, unit_draws |-> 0, cuts |-> 0]

\* The state of no call.
NoLife == LifeStart(Config(0, -1, 0, 0, 0, 0, 0, 0, 0, 0, 0, 0, 0), 0)

\* Variant: the last working year is one year late.
WorkingOneMore(age, retire_age) == age <= retire_age + 1

\* Line 53: still working at this age.
Working(age, retire_age) == age <= retire_age

\* Line 54: before the career-crisis period.
EarlyCareer(c, age) == age < c.career_crisis_age_start

\* Line 58: the layoff draw hits.
Layoff(c, u) == u < c.layoff_probability

\* Variant: the crisis flag is not consulted, the layoff is drawn every year.
BranchNoFlag(c, l, age, d) ==
    IF Working(age, l.retire_age)
    THEN IF EarlyCareer(c, age) THEN "early"
         ELSE IF Layoff(c, d.unit) THEN "cut" ELSE "spared"
    ELSE "retired"

\* Lines 53-72: which way the year goes.
Branch(c, l, age, d) ==
    IF Working(age, l.retire_age)
    THEN IF EarlyCareer(c, age) THEN "early"
         ELSE IF ~l.has_experienced_crisis
              THEN IF Layoff(c, d.unit) THEN "cut" ELSE "spared"
              ELSE "post_crisis"
    ELSE "retired"

\* Lines 55, 59, 62, 64: the salary after the year's update.
SalaryAfter(c, l, b) ==
    CASE b = "early" -> Grow(l.current_salary, c.early_growth_rate)
      [] b = "cut" -> Times(l.current_salary, c.salary_cut_ratio)
      [] b = "spared" -> Grow(l.current_salary, LateGrowthRate)
      [] b = "post_crisis" -> Grow(l.current_salary, LateGrowthRate)
      [] OTHER -> l.current_salary

\* Line 60: the crisis flag after the year's update.
CrisisAfter(l, b) == IF b = "cut" THEN TRUE ELSE l.has_experienced_crisis

\* Line 71: passive income grows with inflation, in retired years only.
PassiveAfter(l, b, inflation) ==
    IF b = "retired" THEN Grow(l.current_passive_income, inflation)
    ELSE l.current_passive_income

\* Lines 66 and 72.
Cashflow(b, salary, passive, expense) ==
    IF b = "retired" THEN passive - expense ELSE salary - expense

\* Line 76.
NewAssets(prev_assets, investment_return, yearly_cashflow) ==
    Grow(prev_assets, investment_return) + yearly_cashflow

\* Variant: assets of exactly 0 count as ruin.
RuinAtZero(new_assets) == new_assets <= 0

\* Line 80.
Ruin(new_assets) == new_assets < 0

\* Line 78.
Store(assets, t, new_assets) == [assets EXCEPT ![t + 1] = new_assets]

\* Variant: assets[t + 1:] = 0, the negative entry stays.
ZeroAfter(assets, t) ==
    [i \in 1..Len(assets) |-> IF i >= t + 2 THEN 0 ELSE assets[i]]

\* Variant: the path is cut at the step of ruin.
CutFrom(assets, t) == SubSeq(assets, 1, t)

\* Line 82: assets[t:] = 0.
ZeroFrom(assets, t) ==
    [i \in 1..Len(assets) |-> IF i >= t + 1 THEN 0 ELSE assets[i]]

\* Line 41: the loop runs another iteration (no break, t + 1 < len(ages)).
LoopContinues(c, l) == ~l.is_ruined /\ l.t + 1 < NumAges(c)

\* Lines 42-83: one iteration of the loop, with the year's draws d.
YearStep(c, l, d) ==
    LET t == l.t + 1
        age == Ages(c)[t + 1]
        inflation == Clip(d.normal)
        investment_return == d.uniform
        expense == Grow(l.current_expense, inflation)
        b == Branch(c, l, age, d)
        salary == SalaryAfter(c, l, b)
        passive == PassiveAfter(l, b, inflation)
        yearly_cashflow == Cashflow(b, salary, passive, expense)
        new_assets == NewAssets(l.assets[t], investment_return, yearly_cashflow)
        stored == Store(l.assets, t, new_assets)
    IN  [retire_age |-> l.retire_age,
         t |-> t,
         assets |-> IF Ruin(new_assets) THEN ZeroFrom(stored, t) ELSE stored,
         current_salary |-> salary,
         current_expense |-> expense,
         current_passive_income |-> passive,
         is_ruined |-> Ruin(new_assets),
         has_experienced_crisis |-> CrisisAfter(l, b),
         inflation |-> inflation,
         yearly_cashflow |-> yearly_cashflow,
         new_assets |-> new_assets,
         negative |-> IF new_assets < 0 THEN l.negative \cup {t} ELSE l.negative,
         branch |-> b,
         normal_draws |-> l.normal_draws + 1,
         uniform_draws |-> l.uniform_draws + 1,
         unit_draws |-> IF b \in {"cut", "spared"} THEN l.unit_draws + 1
                        ELSE l.unit_draws,
         cuts |-> IF b = "cut" THEN l.cuts + 1 ELSE l.cuts]

\* Line 85: what the call returns.
Returned(l) == [is_ruined |-> l.is_ruined, assets |-> l.assets]

\* Lines 41-85 in one go: the loop run to its end with the draws ds[1], ds[2],
\* ... of its years.
RECURSIVE RunLoop(_, _, _)
RunLoop(c, l, ds) ==
    IF LoopContinues(c, l) THEN RunLoop(c, YearStep(c, l, ds[l.t + 1]), ds)
    ELSE l

\* A whole call, for a non-empty age ladder.
SimulateLifetime(c, retire_age, ds) == RunLoop(c, LifeStart(c, retire_age), ds)

\* The draws of the years of one path.
DrawSeqs(c) == [1..Years(c) -> Draws(c)]

\* ---------------------------------------------------------- run_simulation
\* Variant: the fraction of ruined paths, not the percentage.
RateAsFraction(ruin_count, simulations) ==
    [num |-> ruin_count, den |-> simulations]

\* A ruin rate (ruin_count / simulations) * 100 is kept as the exact fraction
\* num / den, den > 0.
Rate(ruin_count, simulations) == [num |-> 100 * ruin_count, den |-> simulations]
Less(a, b) == a.num * b.den < b.num * a.den
Whole(n) == [num |-> n, den |-> 1]

\* Line 95: min_ruin_rate = 100.
InitialMinRate == 100
\* Line 111: rate < 5.0.
SafeRate == 5
\* Lines 137-138: the two fixed projection ages.
Age30 == 30
Age40 == 40

\* Line 92: list(range(retire_age_start, retire_age_end + 1)).
PossibleAges(retire_age_start, retire_age_end) ==
    [j \in 1..Max(0, retire_age_end + 1 - retire_age_start) |->
        retire_age_start + j - 1]

\* Line 96: possible_ages[-1].
LastOf(possible_ages) == possible_ages[Len(possible_ages)]

\* Optional values: <<>> is None, <<v>> is v.
None == <<>>
Some(v) == <<v>>

\* Locals of run_simulation after lines 88-96.  i is the position of r_age in
\* possible_ages, k the number of iterations done of the loop of line 100 or
\* 119, key the position of the projection being built (1 recommended,
\* 2 age_30, 3 age_40), samples the number of paths in asset_paths.  calls,
\* draws and swept record what the call did and are not read by it: the
\* simulate_lifetime calls made, the random draws they consumed, and per age
\* swept the calls made and how many returned ruined.
RunStart(retire_age_start, retire_age_end) ==
    [retire_age_start |-> retire_age_start,
     retire_age_end |-> retire_age_end,
     possible_ages |-> PossibleAges(retire_age_start, retire_age_end),
     i |-> 1, k |-> 0, ruin_count |-> 0,
     ruin_rates |-> <<>>,
     optimal_age |-> None,
     min_ruin_rate |-> Whole(InitialMinRate),
     best_age_fallback |->
         LastOf(PossibleAges(retire_age_start, retire_age_end)),
     target_retire_age |-> None,
     key |-> 1, samples |-> 0,
     projections |-> <<>>,
     calls |-> 0, draws |-> 0,
     swept |-> [j \in 1..Len(PossibleAges(retire_age_start, retire_age_end))
                  |-> [calls |-> 0, ruined |-> 0]]]

\* Variant: `<=', the last age of least rate wins.
NewMinimumOrEqual(rate, min_ruin_rate) ==
    rate.num * min_ruin_rate.den <= min_ruin_rate.num * rate.den

\* Lines 107-109.
NewMinimum(rate, min_ruin_rate) == Less(rate, min_ruin_rate)

\* Line 111.
Safe(rate) == Less(rate, Whole(SafeRate))

\* Variant: no latch, every safe age replaces the one before.
OptimalAfterNoLatch(optimal_age, rate, r_age) ==
    IF rate.num * 1 < SafeRate * rate.den THEN <<r_age>> ELSE optimal_age

\* Lines 111-112.
OptimalAfter(optimal_age, rate, r_age) ==
    IF optimal_age = None /\ Safe(rate) THEN Some(r_age) ELSE optimal_age

\* Line 133.
TargetRetireAge(optimal_age, best_age_fallback) ==
    IF optimal_age # None THEN optimal_age[1] ELSE best_age_fallback

\* Variant: `>' for `>=', no projection for the current age itself.
ProjectionAgeStrict(c, r, key) ==
    CASE key = 1 -> r.target_retire_age
      [] key = 2 -> IF Age30 > c.current_age THEN <<Age30>> ELSE <<>>
      [] key = 3 -> IF Age40 > c.current_age THEN <<Age40>> ELSE <<>>

\* Lines 136-138: the age of the projection at position key, None when the
\* projection is not computed.
ProjectionAge(c, r, key) ==
    CASE key = 1 -> r.target_retire_age
      [] key = 2 -> IF Age30 >= c.current_age THEN Some(Age30) ELSE None
      [] key = 3 -> IF Age40 >= c.current_age THEN Some(Age40) ELSE None

\* Lines 124-130.  The percentile bands are not modelled: the projection
\* records the number of paths they are taken over.
Projection(c, target_age, samples) ==
    [ages |-> Ages(c), retire_age |-> target_age, samples |-> samples]

\* Draws consumed by a call.
DrawsOf(l) == l.normal_draws + l.uniform_draws + l.unit_draws

\* ------------------------------------------------------------------- state
VARIABLES
    cfg,      \* the FIRESimulator's fields
    pc,       \* where the running call is
    life,     \* locals of the running simulate_lifetime call
    result,   \* what simulate_lifetime returned
    err,      \* the exception that ended the call, "none" if none
    run       \* locals of the running run_simulation call

vars == <<cfg, pc, life, result, err, run>>

NoResult == [is_ruined |-> FALSE, assets |-> <<>>]

\* -------------------------------------------- simulate_lifetime, stepwise
\* Lines 25-39.  With an empty age ladder `assets[0] = ...' raises IndexError.
LifeCall ==
    /\ pc = "idle"
    /\ \E retire_age \in (cfg.current_age - 1)..(cfg.current_age + Years(cfg)) :
          IF NumAges(cfg) = 0
          THEN /\ err' = "IndexError"
               /\ pc' = "raised"
               /\ UNCHANGED life
          ELSE /\ life' = LifeStart(cfg, retire_age)
               /\ pc' = "loop"
               /\ UNCHANGED err
    /\ UNCHANGED <<cfg, result, run>>

\* Lines 41-83: one year.
LifeStep ==
    /\ pc = "loop"
    /\ LoopContinues(cfg, life)
    /\ \E d \in Draws(cfg) : life' = YearStep(cfg, life, d)
    /\ UNCHANGED <<cfg, pc, result, err, run>>

\* Line 85.
LifeReturn ==
    /\ pc = "loop"
    /\ ~LoopContinues(cfg, life)
    /\ result' = Returned(life)
    /\ pc' = "done"
    /\ UNCHANGED <<cfg, life, err, run>>

\* The state of no run_simulation call.
NoRun == [RunStart(0, 0) EXCEPT !.possible_ages = <<>>, !.swept = <<>>]

\* Configurations whose single paths are stepped through: every length of
\* path from the empty ladder up, assets below, at and above zero, with and
\* without passive income; income equal to the expense, so that the sign of
\* a year's cashflow depends on the draws.
\* A year's cashflow of every sign, a cut or not at the layoff draw.
LifeConfigs ==
    { Config(33, le, a, inc, 2, 1, -5, 7, ccs, 8, 35, 2, pri) :
        le \in 32..(33 + MaxYears), a \in {-1, 0, 2}, inc \in {2, 3},
        ccs \in {34, 35}, pri \in {0, 2} }

InitLife ==
    /\ cfg \in LifeConfigs
    /\ pc = "idle"
    /\ life = NoLife
    /\ result = NoResult
    /\ err = "none"
    /\ run = NoRun

NextLife == LifeCall \/ LifeStep \/ LifeReturn

SpecLife == InitLife /\ [][NextLife]_vars

\* ------------------------------------------------- run_simulation, stepwise
\* The arguments tried: ranges of up to MaxAges ages around current_age, the
\* empty range included; with the large sample count, the two ages at and
\* after current_age.
RunArgs(c) ==
    IF c.simulations > MaxSimulations
    THEN {<<c.current_age, c.current_age + 1>>}
    ELSE {a \in {c.current_age, c.current_age + 1}
                    \X ((c.current_age - 1)..(c.current_age + MaxAges)) :
             a[2] >= a[1] - 1 /\ a[2] <= a[1] + MaxAges - 1}

\* Lines 87-96.  With an empty range `possible_ages[-1]' raises IndexError.
RunCall ==
    /\ pc = "idle"
    /\ \E a \in RunArgs(cfg) :
          IF Len(PossibleAges(a[1], a[2])) = 0
          THEN /\ err' = "IndexError"
               /\ pc' = "raised"
               /\ run' = [run EXCEPT !.retire_age_start = a[1],
                                     !.retire_age_end = a[2]]
          ELSE /\ run' = RunStart(a[1], a[2])
               /\ pc' = "sweep"
               /\ UNCHANGED err
    /\ UNCHANGED <<cfg, life, result>>

\* Lines 100-103: one simulation of the age r_age.  simulate_lifetime raises
\* IndexError on an empty age ladder.
SweepSim ==
    /\ pc = "sweep"
    /\ run.i <= Len(run.possible_ages)
    /\ run.k < cfg.simulations
    /\ IF NumAges(cfg) = 0
       THEN /\ err' = "IndexError"
            /\ pc' = "raised"
            /\ run' = [run EXCEPT !.calls = @ + 1,
                                  !.swept[run.i].calls = @ + 1]
       ELSE /\ \E ds \in DrawSeqs(cfg) :
                LET l == SimulateLifetime(cfg, run.possible_ages[run.i], ds)
                    ruined == IF Returned(l).is_ruined THEN 1 ELSE 0
                IN  run' = [run EXCEPT !.k = @ + 1,
                                       !.ruin_count = @ + ruined,
                                       !.calls = @ + 1,
                                       !.draws = @ + DrawsOf(l),
                                       !.swept[run.i].calls = @ + 1,
                                       !.swept[run.i].ruined = @ + ruined]
            /\ UNCHANGED <<pc, err>>
    /\ UNCHANGED <<cfg, life, result>>

\* Lines 104-112: the rate of r_age, and on to the next age.  The division
\* raises ZeroDivisionError when simulations is 0.
SweepRate ==
    /\ pc = "sweep"
    /\ run.i <= Len(run.possible_ages)
    /\ run.k >= cfg.simulations
    /\ IF cfg.simulations = 0
       THEN /\ err' = "ZeroDivisionError"
            /\ pc' = "raised"
            /\ UNCHANGED run
       ELSE /\ LET r_age == run.possible_ages[run.i]
                   rate == Rate(run.ruin_count, cfg.simulations)
                   lower == NewMinimum(rate, run.min_ruin_rate)
               IN  run' = [run EXCEPT
                      !.ruin_rates = Append(@, [age |-> r_age, rate |-> rate]),
                      !.min_ruin_rate = IF lower THEN rate ELSE @,
                      !.best_age_fallback = IF lower THEN r_age ELSE @,
                      !.optimal_age = OptimalAfter(@, rate, r_age),
                      !.i = @ + 1, !.k = 0, !.ruin_count = 0]
            /\ UNCHANGED <<pc, err>>
    /\ UNCHANGED <<cfg, life, result>>

\* Lines 114-133: the sweep is over, the recommended age is chosen.
SweepEnd ==
    /\ pc = "sweep"
    /\ run.i > Len(run.possible_ages)
    /\ run' = [run EXCEPT
          !.target_retire_age =
              Some(TargetRetireAge(run.optimal_age, run.best_age_fallback)),
          !.key = 1, !.k = 0, !.samples = 0]
    /\ pc' = "projections"
    /\ UNCHANGED <<cfg, life, result, err>>

\* Lines 119-121: one path of the projection being built.
ProjSim ==
    /\ pc = "projections"
    /\ run.key <= 3
    /\ ProjectionAge(cfg, run, run.key) # None
    /\ run.k < cfg.simulations
    /\ IF NumAges(cfg) = 0
       THEN /\ err' = "IndexError"
            /\ pc' = "raised"
            /\ run' = [run EXCEPT !.calls = @ + 1]
       ELSE /\ \E ds \in DrawSeqs(cfg) :
                LET l == SimulateLifetime(
                             cfg, ProjectionAge(cfg, run, run.key)[1], ds)
                IN  run' = [run EXCEPT !.k = @ + 1,
                                       !.samples = @ + 1,
                                       !.calls = @ + 1,
                                       !.draws = @ + DrawsOf(l)]
            /\ UNCHANGED <<pc, err>>
    /\ UNCHANGED <<cfg, life, result>>

\* Lines 123-130: the projection being built is complete.
ProjEnd ==
    /\ pc = "projections"
    /\ run.key <= 3
    /\ ProjectionAge(cfg, run, run.key) # None
    /\ run.k >= cfg.simulations
    /\ run' = [run EXCEPT
          !.projections = Append(@,
              Some(Projection(cfg, ProjectionAge(cfg, run, run.key)[1],
                              run.samples))),
          !.key = @ + 1, !.k = 0, !.samples = 0]
    /\ UNCHANGED <<cfg, pc, life, result, err>>

\* Lines 137-138: a projection that is not computed is None.
ProjNone ==
    /\ pc = "projections"
    /\ run.key <= 3
    /\ ProjectionAge(cfg, run, run.key) = None
    /\ run' = [run EXCEPT !.projections = Append(@, None), !.key = @ + 1]
    /\ UNCHANGED <<cfg, pc, life, result, err>>

\* Line 141.
RunReturn ==
    /\ pc = "projections"
    /\ run.key > 3
    /\ pc' = "returned"
    /\ UNCHANGED <<cfg, life, result, err, run>>

\* The report returned: results['ruin_rates'] and results['projections'].
Report ==
    [ruin_rates |-> run.ruin_rates,
     recommended |-> run.projections[1],
     age_30 |-> run.projections[2],
     age_40 |-> run.projections[3]]

\* The large sample count: the smallest one with a rate strictly between 0
\* and 5.
BigSimulations == 21

\* Configurations swept: paths from the empty ladder up and sample counts
\* from 0 up, with and without income (without, a path can end in ruin at
\* every retirement age); current_age on both sides of 30 and of 40; then one
\* configuration off the domain per field the domain constrains; then one
\* with the large sample count.
RunConfigs ==
    { Config(30, 30 + y, 2, inc, 2, n, -5, 7, 31, 8, 35, 2, 0) :
        y \in (-1)..MaxRunYears, inc \in {0, 2}, n \in 0..MaxSimulations }
    \cup { Config(ca, ca + 1, 2, 0, 2, 1, -5, 7, 31, 8, 35, 2, 0) :
             ca \in {30, 31, 40, 41} }
    \cup { Config(30, 31, 2, 0, 2, 1, 7, -5, 31, 8, 35, 2, 0),
           Config(30, 31, 2, 0, 2, 1, -5, 7, 31, 60, 35, 2, 0),
           Config(30, 31, 2, 0, 2, 1, -5, 7, 31, -1, 35, 2, 0),
           Config(30, 31, 2, 0, 2, 1, -5, 7, 31, 8, 0, 2, 0) }
    \cup { Config(30, 31, 2, 0, 2, BigSimulations, -5, 7, 99, 8, 35, 2, 0) }

Init ==
    /\ cfg \in RunConfigs
    /\ pc = "idle"
    /\ life = NoLife
    /\ result = NoResult
    /\ err = "none"
    /\ run = NoRun

Next ==
    \/ RunCall \/ SweepSim \/ SweepRate \/ SweepEnd
    \/ ProjSim \/ ProjEnd \/ ProjNone \/ RunReturn

Spec == Init /\ [][Next]_vars

\* ------------------------------------------------------------------ claims
\* Is a simulate_lifetime call under way or over.
InLife == pc \in {"loop", "done"}
\* The age of the last year stepped through.
LifeAge == cfg.current_age + life.t
FirstNegative == CHOOSE s \in life.negative : \A r \in life.negative : s <= r

\* C1 (state part): once a step computes new_assets < 0, the ruined flag is
\* set, every asset entry from that step on is exactly 0, and that step is the
\* last one run, with two draws per step run and no more.
C1_State ==
    (InLife /\ ValidConfig(cfg) /\ life.negative # {}) =>
        /\ life.is_ruined
        /\ \A i \in 1..Len(life.assets) :
              i >= FirstNegative + 1 => life.assets[i] = 0
        /\ life.t = FirstNegative
        /\ life.normal_draws = FirstNegative
        /\ life.uniform_draws = FirstNegative
        /\ pc = "done" =>
              /\ result.is_ruined
              /\ \A i \in 1..Len(result.assets) :
                    i >= FirstNegative + 1 => result.assets[i] = 0
\* C1 (step part): after a step computed new_assets < 0 nothing of the call's
\* state changes any more: no draw, no update of salary, expense, passive
\* income or crisis flag.
C1_Step == (InLife /\ life.negative # {}) => life' = life
\* C1: ruin at step t sets the flag, zeroes entries t and later, and ends the
\* simulation of the path.
C1_RuinIsTerminal == [](C1_State) /\ [][C1_Step]_vars
\* A path ruined at its second step, before its last one.
C1_Witness ==
    /\ pc = "done" /\ ValidConfig(cfg) /\ result.is_ruined
    /\ FirstNegative = 2 /\ Years(cfg) >= 3
    /\ result.assets[2] # 0 /\ result.assets[3] = 0 /\ life.new_assets < 0

\* C2: the returned path has life_expectancy - current_age + 1 entries and
\* starts with current_assets, whatever the retirement age, ruined or not.
C2_PathLength ==
    (pc = "done" /\ ValidConfig(cfg)) =>
        /\ Len(result.assets) = cfg.life_expectancy - cfg.current_age + 1
        /\ result.assets[1] = Money(cfg, cfg.current_assets)
\* A path that broke off on ruin two steps before its end.
C2_Witness ==
    /\ pc = "done" /\ ValidConfig(cfg) /\ result.is_ruined
    /\ life.t = 1 /\ Len(result.assets) = 4 /\ cfg.current_assets # 0

\* C10: no returned entry after the first is negative, and the path is
\* reported ruined exactly when some step computed new_assets < 0.
C10_RuinedIffNegative ==
    (pc = "done" /\ ValidConfig(cfg)) =>
        /\ \A i \in 2..Len(result.assets) : result.assets[i] >= 0
        /\ result.is_ruined <=> (life.negative # {})
\* A path that starts below zero, reaches exactly 0 at its first step, is
\* simulated to its end and is returned as not ruined.
C10_Witness ==
    /\ pc = "done" /\ ValidConfig(cfg) /\ ~result.is_ruined
    /\ cfg.current_assets < 0 /\ result.assets[1] < 0
    /\ result.assets[2] = 0 /\ life.t = Years(cfg) /\ Years(cfg) >= 2

\* A year step of the running call.
IsYearStep == pc = "loop" /\ pc' = "loop" /\ life'.t = life.t + 1
\* The year stepped to is a working year of the crisis period.
CrisisEligible(age, retire_age) ==
    age <= retire_age /\ age >= cfg.career_crisis_age_start

\* C7 (state part): the salary cut has happened at most once, and the flag is
\* set exactly when it has.
C7_State ==
    InLife => /\ life.cuts <= 1
              /\ life.has_experienced_crisis <=> (life.cuts = 1)
\* C7 (step part): the flag never goes back; it is set together with the cut;
\* a unit value is drawn only in a working crisis-period year with the flag
\* clear; with the flag set such a year multiplies the salary by 1.02 and
\* draws no unit value.
C7_Step ==
    IsYearStep =>
        LET age == cfg.current_age + life'.t
            eligible == CrisisEligible(age, life.retire_age)
        IN  /\ life.has_experienced_crisis => life'.has_experienced_crisis
            /\ (~life.has_experienced_crisis /\ life'.has_experienced_crisis) =>
                  life'.current_salary =
                      Times(life.current_salary, cfg.salary_cut_ratio)
            /\ life'.unit_draws # life.unit_draws =>
                  /\ eligible
                  /\ ~life.has_experienced_crisis
                  /\ life'.unit_draws = life.unit_draws + 1
            /\ (eligible /\ life.has_experienced_crisis) =>
                  /\ life'.current_salary =
                        Grow(life.current_salary, LateGrowthRate)
                  /\ life'.unit_draws = life.unit_draws
\* C7: the career crisis is a one-shot transition.
C7_CrisisOnce == [](C7_State) /\ [][C7_Step]_vars
\* Two working crisis-period years after the cut.
C7_Witness ==
    /\ pc = "done" /\ life.has_experienced_crisis /\ life.branch = "post_crisis"
    /\ life.unit_draws = 1 /\ life.t = 3 /\ LifeAge <= life.retire_age
    /\ cfg.career_crisis_age_start = 34

\* C8 (state part): with retire_age <= current_age every year stepped through
\* is a retired year with cashflow passive_income - expense; the salary is
\* still annual_income, the flag clear, no unit value drawn.
C8_State ==
    (InLife /\ life.retire_age <= cfg.current_age) =>
        /\ life.branch \in {"none", "retired"}
        /\ life.current_salary = Money(cfg, cfg.annual_income)
        /\ ~life.has_experienced_crisis
        /\ life.unit_draws = 0 /\ life.cuts = 0
        /\ life.t >= 1 =>
              life.yearly_cashflow =
                  life.current_passive_income - life.current_expense
\* C8 (step part): each such year grows the passive income by the year's
\* inflation.
C8_Step ==
    (IsYearStep /\ life.retire_age <= cfg.current_age) =>
        life'.current_passive_income =
            Grow(life.current_passive_income, life'.inflation)
\* C8: a retirement age at or below the current age means no working year.
C8_AlwaysRetired == [](C8_State) /\ [][C8_Step]_vars
\* A full path retired from the start, with a passive income that grew.
C8_Witness ==
    /\ pc = "done" /\ life.retire_age = cfg.current_age
    /\ life.t = Years(cfg) /\ life.t >= 2 /\ life.branch = "retired"
    /\ life.current_passive_income > Money(cfg, cfg.post_retirement_income)

\* The recommended age of the report.
Recommended == Report.recommended[1].retire_age
\* No age swept has a rate < 5.0.
NoSafeAge == \A j \in 1..Len(run.ruin_rates) : ~Safe(run.ruin_rates[j].rate)
\* The rate at position j is the least of the rates swept.
LeastRate(j) ==
    \A m \in 1..Len(run.ruin_rates) :
        ~Less(run.ruin_rates[m].rate, run.ruin_rates[j].rate)
\* Every age swept has rate 100.
AllHundred ==
    \A j \in 1..Len(run.ruin_rates) :
        ~Less(run.ruin_rates[j].rate, Whole(100))
\* The earliest age of least rate.
EarliestLeast ==
    run.ruin_rates[CHOOSE j \in 1..Len(run.ruin_rates) :
        LeastRate(j) /\ \A m \in 1..(j - 1) : ~LeastRate(m)].age

\* C3 as stated: with no rate < 5.0 the recommended age is the earliest age of
\* least rate, whatever the rates.
C3_Original ==
    (pc = "returned" /\ ValidConfig(cfg) /\ NoSafeAge) =>
        Recommended = EarliestLeast
\* C3 as amended: with no rate < 5.0 the recommended age is the earliest age
\* of least rate, except that it is the last age swept when every rate is 100.
C3_FallbackAge ==
    (pc = "returned" /\ ValidConfig(cfg) /\ NoSafeAge) =>
        Recommended = IF AllHundred THEN run.retire_age_end ELSE EarliestLeast
\* No rate is safe and the least rate, below 100, is reached by two ages.
C3_Witness ==
    /\ pc = "returned" /\ ValidConfig(cfg) /\ NoSafeAge /\ ~AllHundred
    /\ Len(run.ruin_rates) >= 2
    /\ LeastRate(1) /\ LeastRate(2)
    /\ Recommended = run.retire_age_start

\* C4: with some rate < 5.0 the recommended age is the smallest age swept
\* whose rate is < 5.0, even when a later age has a lower rate.
C4_FirstSafeAge ==
    (pc = "returned" /\ ValidConfig(cfg) /\ ~NoSafeAge) =>
        \E j \in 1..Len(run.ruin_rates) :
            /\ Safe(run.ruin_rates[j].rate)
            /\ \A m \in 1..(j - 1) : ~Safe(run.ruin_rates[m].rate)
            /\ Recommended = run.ruin_rates[j].age
            /\ run.ruin_rates[j].age = run.retire_age_start + j - 1
\* The first age has a rate between 0 and 5, the second the lower rate 0, and
\* the first is recommended.
C4_Witness ==
    /\ pc = "returned" /\ ValidConfig(cfg)
    /\ Len(run.ruin_rates) = 2
    /\ Safe(run.ruin_rates[1].rate) /\ run.ruin_rates[1].rate.num > 0
    /\ run.ruin_rates[2].rate.num = 0
    /\ Recommended = run.retire_age_start

\* C6: the sweep returns one record per age of the range, in ascending order,
\* whose rate is 100 * ruined / simulations, between 0 and 100, ruined being
\* the number of the `simulations' calls for that age that returned ruined.
C6_RuinRates ==
    (pc = "returned" /\ ValidConfig(cfg)
        /\ run.retire_age_start <= run.retire_age_end) =>
        /\ Len(Report.ruin_rates) = run.retire_age_end - run.retire_age_start + 1
        /\ \A j \in 1..Len(Report.ruin_rates) :
              LET rec == Report.ruin_rates[j]
              IN  /\ rec.age = run.retire_age_start + j - 1
                  /\ run.swept[j].calls = cfg.simulations
                  /\ rec.rate.den > 0
                  /\ rec.rate.num * cfg.simulations
                        = 100 * run.swept[j].ruined * rec.rate.den
                  /\ rec.rate.num >= 0
                  /\ rec.rate.num <= 100 * rec.rate.den
\* Two ages with different rates, one of them strictly between 0 and 100.
C6_Witness ==
    /\ pc = "returned" /\ ValidConfig(cfg)
    /\ Len(Report.ruin_rates) = 2 /\ cfg.simulations = 2
    /\ run.swept[1].ruined = 1 /\ run.swept[2].ruined = 2

\* C9: the report has a recommended projection for the age the sweep chose,
\* an age_30 projection (for age 30) exactly when 30 >= current_age, an age_40
\* projection (for age 40) exactly when 40 >= current_age, and every
\* projection present has the ages current_age..life_expectancy.
C9_Projections ==
    pc = "returned" =>
        /\ Report.recommended # None
        /\ Recommended = TargetRetireAge(run.optimal_age, run.best_age_fallback)
        /\ Recommended \in
              {run.ruin_rates[j].age : j \in 1..Len(run.ruin_rates)}
        /\ Report.age_30 # None <=> 30 >= cfg.current_age
        /\ Report.age_30 # None => Report.age_30[1].retire_age = 30
        /\ Report.age_40 # None <=> 40 >= cfg.current_age
        /\ Report.age_40 # None => Report.age_40[1].retire_age = 40
        /\ \A p \in {Report.recommended, Report.age_30, Report.age_40} :
              p # None =>
                  /\ Len(p[1].ages) = NumAges(cfg)
                  /\ \A i \in 1..Len(p[1].ages) :
                        p[1].ages[i] = cfg.current_age + i - 1
                  /\ p[1].ages[Len(p[1].ages)] = cfg.life_expectancy
\* A report without age_30 and with age_40, recommending another age.
C9_Witness ==
    /\ pc = "returned" /\ cfg.current_age = 31
    /\ Report.age_30 = None /\ Report.age_40 # None
    /\ Recommended = 32 /\ Len(Report.age_40[1].ages) = 2

\* The arguments of the run_simulation call are a non-empty range.
ValidRange == run.retire_age_end >= run.retire_age_start
\* C5 as stated: with a configuration or a range off the domain the call
\* ends in a ConfigurationError before any simulation work: no
\* simulate_lifetime call, no random draw, no report.
C5_FailFast ==
    (pc # "idle" /\ ~(ValidConfig(cfg) /\ ValidRange)) =>
        /\ pc = "raised" /\ err = "ConfigurationError"
        /\ run.calls = 0 /\ run.draws = 0
\* C5, the part about the work done: off the domain no simulate_lifetime call
\* is made, no draw is consumed and no report is returned.
C5_NoWork ==
    ~(ValidConfig(cfg) /\ ValidRange) =>
        run.calls = 0 /\ run.draws = 0 /\ pc # "returned"

====
